---- MODULE Spec2Model ----
(***************************************************************************)
(* A model of the task tracker of src/main.py: the backing file            *)
(* tasks.json, the in-memory list of task dicts, and the interactive loop  *)
(* of main() with its seven menu choices.                                  *)
(*                                                                         *)
(* Representation.                                                         *)
(*  - A Python dict is a TLA+ record whose DOMAIN is the dict's key set,   *)
(*    so a record loaded from the file may lack keys.                      *)
(*  - The value of an "id" key, and the text typed at a numeric prompt,    *)
(*    is a tagged value: Num(n) for the integer n (text that int()         *)
(*    accepts), NotNum for a value that is no number (a JSON string, text  *)
(*    int() rejects), None for Python's None.                              *)
(*  - Text is a TLA+ string; str.strip and str.lower are tabulated on the  *)
(*    texts the model types in.                                            *)
(*  - A timestamp is the clock reading (an integer) at the call of         *)
(*    timestamp_now(); ISO-8601 strings of one format order as their       *)
(*    instants do.                                                         *)
(*  - The file is modelled by the JSON value it holds. json.dump and       *)
(*    json.load are inverse to each other on the values a task holds       *)
(*    (str, int, None, dicts with str keys), so what a load of a saved     *)
(*    file changes is what load_tasks itself does: dropping, migrating,    *)
(*    renumbering.                                                         *)
(*  - save_tasks has two outcomes: the file is written ("ok"), or the      *)
(*    write fails after open() truncated the file ("write_failed"), which  *)
(*    leaves an unparseable prefix of the text. A failure of open() itself *)
(*    leaves the file as it was and is not modelled.                       *)
(*  - KeyboardInterrupt is taken at the input() prompts of the loop.       *)
(*  - An exception no handler catches (TypeError, KeyError) ends the       *)
(*    process: pc = "crashed".                                             *)
(*  - The model starts at the call of main(); the imports at the top of    *)
(*    the file are not modelled.                                           *)
(***************************************************************************)
EXTENDS Integers, Sequences, FiniteSets, TLC

\* ---------------------------------------------------------------- bounds
MaxId == 2              \* largest id the model lets add_task assign
MaxClock == 1           \* last reading of the clock
MaxTasks == MaxId + 1   \* longest list the model lets add_task build (a
                        \* list with a repeated or non-numeric id holds
                        \* more tasks than ids)

\* ---------------------------------------------------------------- values
VALID_STATUSES == {"todo", "in-progress", "done"}

Num(n) == [int |-> n]
NotNum == [str |-> "x"]
None == [none |-> TRUE]
IsNum(v) == DOMAIN v = {"int"}

Has(d, k) == k \in DOMAIN d
Get(d, k, default) == IF Has(d, k) THEN d[k] ELSE default

strip(s) ==
    CASE s = " " -> ""
      [] s = " a " -> "a"
      [] s = " b " -> "b"
      [] s = " Done " -> "Done"
      [] s = " Yes " -> "Yes"
      [] OTHER -> s

lower(s) ==
    CASE s = "Done" -> "done"
      [] s = "Yes" -> "yes"
      [] OTHER -> s

\* ---------------------------------------------------------------- inputs
\* The texts typed at the prompts.
IdInputs == {Num(1), Num(2), NotNum}
CountInputs == {Num(0), Num(1), Num(2), NotNum}
AddDescInputs == {"", " ", " a "}
NewDescInputs == {"", " ", " b "}
StatusInputs == {" Done ", "bogus", ""}
FilterInputs == {"", "todo", "in-progress", " Done ", "bogus"}
ConfirmInputs == {"y", " Yes ", "n"}
WriteOutcomes == {"ok", "write_failed"}

\* ---------------------------------------------------------------- files
Absent == [kind |-> "absent"]
Unparseable == [kind |-> "unparseable"]
NotAList == [kind |-> "notalist"]
json_dump(ts) == [kind |-> "list", items |-> ts]

Current(id, description, status) ==
    [id |-> id, description |-> description, status |-> status,
     createdAt |-> 0, updatedAt |-> 0]

\* The backing files a run starts from: no file, files load_tasks rejects,
\* current-format files, legacy files, and hand-edited files whose records
\* load_tasks passes through.
InitialFiles ==
    { Absent, Unparseable, NotAList,
      json_dump(<<>>),
      json_dump(<<Current(Num(1), "a", "todo"), Current(Num(2), "b", "done")>>),
      json_dump(<<[task |-> "a", done |-> TRUE]>>),
      json_dump(<<[task |-> " ", done |-> FALSE], [description |-> "a"],
                  Current(Num(1), "b", "done")>>),
      json_dump(<<[task |-> " a ", done |-> FALSE, updatedAt |-> 0]>>),
      json_dump(<<Current(Num(1), "a", "todo"),
                  [id |-> Num(1), description |-> "b", task |-> "b"]>>),
      json_dump(<<Current(NotNum, "", "bogus"), [description |-> "a"]>>) }

Terminal == {"exited", "interrupted", "crashed"}

VARIABLES
    file,       \* content of tasks.json
    tasks,      \* the list main() holds
    pc,         \* "init", "menu", "adding", or a member of Terminal
    remaining,  \* iterations left of add_task's loop
    now,        \* the clock
    wfail,      \* a write of this process run has failed
    deleted,    \* history: ids of the tasks deleted so far, in any run
                \* (recorded by SpecHistory only)
    last        \* the last step: [op, outcome, ...], with the outcome of
                \* the write (`write`) when the step saved

vars == <<file, tasks, pc, remaining, now, wfail, deleted, last>>

\* ------------------------------------------------------------ save_tasks
\* save_tasks(tasks) with write outcome w: json.dump into the file opened
\* with "w"; every Exception is caught and reported.
save_tasks(ts, w) ==
    /\ file' = IF w = "ok" THEN json_dump(ts) ELSE Unparseable
    /\ wfail' = (wfail \/ w # "ok")

\* ------------------------------------------------------------ load_tasks
IsLegacy(item) == Has(item, "task") /\ Has(item, "done")
IsCurrent(item) == Has(item, "id") /\ Has(item, "description")

\* A migration that adds the new keys to the legacy record and keeps its
\* "task" and "done" keys.
migrate_in_place(item, t) ==
    [k \in DOMAIN item \cup {"id", "description", "status", "createdAt", "updatedAt"} |->
        CASE k = "id" -> None
          [] k = "description" -> strip(item.task)
          [] k = "status" -> IF item.done THEN "done" ELSE "todo"
          [] k = "createdAt" -> Get(item, "createdAt", t)
          [] k = "updatedAt" -> Get(item, "updatedAt", t)
          [] OTHER -> item[k]]

migrate(item, t) ==
    [id |-> None,
     description |-> strip(item.task),
     status |-> IF item.done THEN "done" ELSE "todo",
     createdAt |-> Get(item, "createdAt", t),
     updatedAt |-> Get(item, "updatedAt", t)]

RECURSIVE classify(_, _)
classify(items, t) ==
    IF items = <<>> THEN <<>>
    ELSE LET item == Head(items)
             rest == classify(Tail(items), t)
         IN  IF IsLegacy(item) THEN <<migrate(item, t)>> \o rest
             ELSE IF IsCurrent(item) THEN <<item>> \o rest
             ELSE rest

\* A renumbering that gives an id to the migrated records only.
renumber_keep_current(new_list) ==
    [idx \in 1..Len(new_list) |->
        IF new_list[idx].id = None
        THEN [new_list[idx] EXCEPT !.id = Num(idx)]
        ELSE new_list[idx]]

renumber(new_list) ==
    [idx \in 1..Len(new_list) |-> [new_list[idx] EXCEPT !.id = Num(idx)]]

\* A load that reassigns the ids whether or not it migrated a record.
load_tasks_renumber_always(f, t) ==
    IF f.kind # "list" THEN [tasks |-> <<>>, migrated |-> FALSE]
    ELSE [tasks |-> renumber(classify(f.items, t)),
          migrated |-> \E i \in 1..Len(f.items) : IsLegacy(f.items[i])]

\* The list load_tasks returns at clock reading t, and whether it migrated.
load_tasks(f, t) ==
    IF f.kind # "list" THEN [tasks |-> <<>>, migrated |-> FALSE]
    ELSE LET migrated == \E i \in 1..Len(f.items) : IsLegacy(f.items[i])
             new_list == classify(f.items, t)
         IN  [tasks |-> IF migrated THEN renumber(new_list) ELSE new_list,
              migrated |-> migrated]

\* ------------------------------------------------------------ helpers
timestamp_now == now

Max(S) == CHOOSE m \in S : \A x \in S : x <= m

\* An id generator that counts the tasks.
get_next_id_count(ts) == Len(ts) + 1

\* max() raises TypeError on ids that are no numbers, and the except
\* clause answers 1.
get_next_id(ts) ==
    IF ts = <<>> THEN 1
    ELSE LET ids == {Get(ts[i], "id", Num(0)) : i \in 1..Len(ts)}
         IN  IF \A v \in ids : IsNum(v)
             THEN Max({v.int : v \in ids}) + 1
             ELSE 1

\* The index of the first task whose id equals task_id, 0 for None.
find_task_by_id(ts, task_id) ==
    LET hits == {i \in 1..Len(ts) : Get(ts[i], "id", None) = Num(task_id)}
    IN  IF hits = {} THEN 0 ELSE CHOOSE i \in hits : \A j \in hits : i <= j

\* print_task subscripts these keys: a dict lacking one raises KeyError.
print_task(task) ==
    {"id", "description", "status", "createdAt", "updatedAt"} \subseteq DOMAIN task

\* d[k] = v on a dict.
Put(d, k, v) == [x \in DOMAIN d \cup {k} |-> IF x = k THEN v ELSE d[x]]

RemoveAt(ts, idx) ==
    [i \in 1..(Len(ts) - 1) |-> IF i < idx THEN ts[i] ELSE ts[i + 1]]

\* ------------------------------------------------------------ handlers
\* Each handler is the function of the source on the list ts and the texts
\* typed at its prompts; it answers the list it leaves and an outcome.
\* Outcome "crash" is an exception that no handler of the program catches.

\* One iteration of add_task's loop.
add_task(ts, raw_desc, t) ==
    LET desc == strip(raw_desc)
        new_id == get_next_id(ts)
        task == [id |-> Num(new_id), description |-> desc, status |-> "todo",
                 createdAt |-> t, updatedAt |-> t]
    IN  IF desc = "" THEN [tasks |-> ts, outcome |-> "skipped"]
        ELSE [tasks |-> Append(ts, task), outcome |-> "added", id |-> new_id]

show_tasks(ts, filter_status) ==
    IF filter_status # ""
    THEN LET f == lower(strip(filter_status))
             matching == {i \in 1..Len(ts) : Get(ts[i], "status", "") = f}
         IN  IF f \notin VALID_STATUSES
             THEN [outcome |-> "invalid", filtered |-> <<>>]
             \* the set comprehension hashes each matching dict: TypeError
             ELSE IF matching # {}
             THEN [outcome |-> "crash", filtered |-> <<>>]
             ELSE [outcome |-> "none", filtered |-> <<>>]
    ELSE [outcome |-> IF ts = <<>> THEN "none" ELSE "header", filtered |-> ts]

\* update_task without the "leave empty to cancel" test.
update_task_no_cancel(ts, raw_id, raw_desc, t) ==
    IF ~IsNum(raw_id) THEN [tasks |-> ts, outcome |-> "invalid_id"]
    ELSE LET idx == find_task_by_id(ts, raw_id.int)
         IN  IF idx = 0 THEN [tasks |-> ts, outcome |-> "not_found"]
             ELSE IF ~print_task(ts[idx]) THEN [tasks |-> ts, outcome |-> "crash"]
             ELSE [tasks |-> [ts EXCEPT ![idx] =
                        Put(Put(@, "description", strip(raw_desc)), "updatedAt", t)],
                   outcome |-> "updated"]

\* update_task that stamps createdAt as well as updatedAt.
update_task_touch_created(ts, raw_id, raw_desc, t) ==
    IF ~IsNum(raw_id) THEN [tasks |-> ts, outcome |-> "invalid_id"]
    ELSE LET idx == find_task_by_id(ts, raw_id.int)
             new_desc == strip(raw_desc)
         IN  IF idx = 0 THEN [tasks |-> ts, outcome |-> "not_found"]
             ELSE IF ~print_task(ts[idx]) THEN [tasks |-> ts, outcome |-> "crash"]
             ELSE IF new_desc = "" THEN [tasks |-> ts, outcome |-> "cancelled"]
             ELSE [tasks |-> [ts EXCEPT ![idx] =
                        Put(Put(Put(@, "description", new_desc), "updatedAt", t),
                            "createdAt", t)],
                   outcome |-> "updated"]

update_task(ts, raw_id, raw_desc, t) ==
    IF ~IsNum(raw_id) THEN [tasks |-> ts, outcome |-> "invalid_id"]
    ELSE LET idx == find_task_by_id(ts, raw_id.int)
             new_desc == strip(raw_desc)
         IN  IF idx = 0 THEN [tasks |-> ts, outcome |-> "not_found"]
             ELSE IF ~print_task(ts[idx]) THEN [tasks |-> ts, outcome |-> "crash"]
             ELSE IF new_desc = "" THEN [tasks |-> ts, outcome |-> "cancelled"]
             ELSE [tasks |-> [ts EXCEPT ![idx] =
                        Put(Put(@, "description", new_desc), "updatedAt", t)],
                   outcome |-> "updated"]

\* delete_task that removes the task whatever the answer.
delete_task_unconfirmed(ts, raw_id, raw_confirm) ==
    IF ~IsNum(raw_id) THEN [tasks |-> ts, outcome |-> "invalid_id"]
    ELSE LET idx == find_task_by_id(ts, raw_id.int)
         IN  IF idx = 0 THEN [tasks |-> ts, outcome |-> "not_found"]
             ELSE IF ~print_task(ts[idx]) THEN [tasks |-> ts, outcome |-> "crash"]
             ELSE [tasks |-> RemoveAt(ts, idx), outcome |-> "deleted",
                   id |-> raw_id.int]

delete_task(ts, raw_id, raw_confirm) ==
    IF ~IsNum(raw_id) THEN [tasks |-> ts, outcome |-> "invalid_id"]
    ELSE LET idx == find_task_by_id(ts, raw_id.int)
             confirm == lower(strip(raw_confirm))
         IN  IF idx = 0 THEN [tasks |-> ts, outcome |-> "not_found"]
             ELSE IF ~print_task(ts[idx]) THEN [tasks |-> ts, outcome |-> "crash"]
             ELSE IF confirm \in {"y", "yes"}
             THEN [tasks |-> RemoveAt(ts, idx), outcome |-> "deleted",
                   id |-> raw_id.int]
             ELSE [tasks |-> ts, outcome |-> "cancelled"]

\* mark_task without the membership test on VALID_STATUSES.
mark_task_unchecked(ts, raw_id, raw_status, t) ==
    IF ~IsNum(raw_id) THEN [tasks |-> ts, outcome |-> "invalid_id"]
    ELSE LET idx == find_task_by_id(ts, raw_id.int)
         IN  IF idx = 0 THEN [tasks |-> ts, outcome |-> "not_found"]
             ELSE IF ~Has(ts[idx], "status") THEN [tasks |-> ts, outcome |-> "crash"]
             ELSE [tasks |-> [ts EXCEPT ![idx] =
                        Put(Put(@, "status", lower(strip(raw_status))),
                            "updatedAt", t)],
                   outcome |-> "marked"]

mark_task(ts, raw_id, raw_status, t) ==
    IF ~IsNum(raw_id) THEN [tasks |-> ts, outcome |-> "invalid_id"]
    ELSE LET idx == find_task_by_id(ts, raw_id.int)
             status == lower(strip(raw_status))
         IN  IF idx = 0 THEN [tasks |-> ts, outcome |-> "not_found"]
             ELSE IF status \notin VALID_STATUSES
             THEN [tasks |-> ts, outcome |-> "invalid_status"]
             \* old = task["status"]: KeyError on a dict without the key
             ELSE IF ~Has(ts[idx], "status") THEN [tasks |-> ts, outcome |-> "crash"]
             ELSE [tasks |-> [ts EXCEPT ![idx] =
                        Put(Put(@, "status", status), "updatedAt", t)],
                   outcome |-> "marked"]

\* ------------------------------------------------------------ main
Init ==
    /\ file \in InitialFiles
    /\ tasks = <<>>
    /\ pc = "init"
    /\ remaining = 0
    /\ now = 0
    /\ wfail = FALSE
    /\ deleted = {}
    /\ last = [op |-> "none", outcome |-> "none"]

\* The clock advances between any two steps.
Tick ==
    /\ now < MaxClock
    /\ now' = now + 1
    /\ UNCHANGED <<file, tasks, pc, remaining, wfail, deleted, last>>

\* tasks = load_tasks(), which saves when it migrated.
Load(w) ==
    /\ pc = "init"
    /\ LET r == load_tasks(file, timestamp_now)
       IN  /\ tasks' = r.tasks
           /\ IF r.migrated
              THEN /\ save_tasks(r.tasks, w)
                   /\ last' = [op |-> "load", outcome |-> "migrated", write |-> w]
              ELSE /\ w = "ok"
                   /\ UNCHANGED <<file, wfail>>
                   /\ last' = [op |-> "load", outcome |-> file.kind]
    /\ pc' = "menu"
    /\ UNCHANGED <<remaining, now, deleted>>

\* A main that saves after a handler only when the handler changed the
\* list.
Return_save_if_changed(op, r, w) ==
    /\ tasks' = r.tasks
    /\ IF r.outcome = "crash"
       THEN /\ w = "ok"
            /\ last' = [op |-> op, outcome |-> r.outcome]
            /\ pc' = "crashed"
            /\ UNCHANGED <<file, wfail>>
       ELSE /\ pc' = "menu"
            /\ last' = [op |-> op, outcome |-> r.outcome, write |-> w]
            /\ IF r.tasks # tasks
               THEN save_tasks(r.tasks, w)
               ELSE w = "ok" /\ UNCHANGED <<file, wfail>>

\* What main does when a handler called for a saving choice returns r:
\* save_tasks(tasks) and back to the prompt, unless the handler raised.
Return(op, r, w) ==
    /\ tasks' = r.tasks
    /\ IF r.outcome = "crash"
       THEN /\ w = "ok"
            /\ last' = [op |-> op, outcome |-> r.outcome]
            /\ pc' = "crashed"
            /\ UNCHANGED <<file, wfail>>
       ELSE /\ pc' = "menu"
            /\ last' = [op |-> op, outcome |-> r.outcome, write |-> w]
            /\ save_tasks(r.tasks, w)

\* Choice 1, up to the first description prompt.
Choice1(raw_n, w) ==
    /\ pc = "menu"
    /\ IF IsNum(raw_n) /\ raw_n.int > 0
       THEN /\ w = "ok"
            /\ pc' = "adding"
            /\ remaining' = raw_n.int
            /\ last' = [op |-> "add", outcome |-> "count"]
            /\ UNCHANGED <<file, tasks, wfail>>
       ELSE /\ Return("add", [tasks |-> tasks, outcome |-> "invalid_count"], w)
            /\ UNCHANGED remaining
    /\ UNCHANGED <<now, deleted>>

\* One description typed at add_task's prompt; after the last one add_task
\* returns and main saves.
AddOne(raw_desc, w) ==
    /\ pc = "adding"
    /\ LET r == add_task(tasks, raw_desc, timestamp_now)
       IN  /\ r.outcome = "added" => Len(tasks) < MaxTasks /\ r.id <= MaxId
           /\ tasks' = r.tasks
           /\ remaining' = remaining - 1
           /\ LET done == IF r.outcome = "added"
                          THEN [op |-> "add", outcome |-> "added", id |-> r.id]
                          ELSE [op |-> "add", outcome |-> "skipped"]
              IN  IF remaining = 1
                  THEN /\ pc' = "menu"
                       /\ last' = Put(done, "write", w)
                       /\ save_tasks(r.tasks, w)
                  ELSE /\ w = "ok"
                       /\ pc' = "adding"
                       /\ last' = done
                       /\ UNCHANGED <<file, wfail>>
    /\ UNCHANGED <<now, deleted>>

\* Choices 2 and 3: show_tasks(tasks) and show_tasks(tasks, filt); no save.
Show(op, filt) ==
    /\ pc = "menu"
    /\ LET r == show_tasks(tasks, filt)
       IN  /\ pc' = IF r.outcome = "crash" THEN "crashed" ELSE "menu"
           /\ last' = [op |-> op, outcome |-> r.outcome, status |-> filt,
                       filtered |-> r.filtered]
    /\ UNCHANGED <<file, tasks, remaining, now, wfail, deleted>>

Choice2 == Show("show", "")

Choice3(raw_filt) == Show("filter", lower(strip(raw_filt)))

Choice4(raw_id, raw_desc, w) ==
    /\ pc = "menu"
    /\ Return("update", update_task(tasks, raw_id, raw_desc, timestamp_now), w)
    /\ UNCHANGED <<remaining, now, deleted>>

Choice5(raw_id, raw_status, w) ==
    /\ pc = "menu"
    /\ Return("mark", mark_task(tasks, raw_id, raw_status, timestamp_now), w)
    /\ UNCHANGED <<remaining, now, deleted>>

Choice6(raw_id, raw_confirm, w, history) ==
    /\ pc = "menu"
    /\ LET r == delete_task(tasks, raw_id, raw_confirm)
       IN  /\ Return("delete", r, w)
           /\ deleted' = IF history /\ r.outcome = "deleted"
                         THEN deleted \cup {r.id} ELSE deleted
    /\ UNCHANGED <<remaining, now>>

Choice7(w) ==
    /\ pc = "menu"
    /\ save_tasks(tasks, w)
    /\ pc' = "exited"
    /\ last' = [op |-> "exit", outcome |-> w]
    /\ UNCHANGED <<tasks, remaining, now, deleted>>

\* Any other text at the menu prompt.
InvalidChoice ==
    /\ pc = "menu"
    /\ last' = [op |-> "invalid_choice", outcome |-> "none"]
    /\ UNCHANGED <<file, tasks, pc, remaining, now, wfail, deleted>>

\* An except clause that reports the interrupt and does not save.
Interrupt_no_save(w) ==
    /\ pc \in {"menu", "adding"}
    /\ w = "ok"
    /\ pc' = "interrupted"
    /\ last' = [op |-> "interrupt", outcome |-> "none", at |-> pc]
    /\ UNCHANGED <<file, tasks, remaining, now, wfail, deleted>>

\* Ctrl-C at a prompt of the loop: the except clause of main saves.
Interrupt(w) ==
    /\ pc \in {"menu", "adding"}
    /\ save_tasks(tasks, w)
    /\ pc' = "interrupted"
    /\ last' = [op |-> "interrupt", outcome |-> w, at |-> pc]
    /\ UNCHANGED <<tasks, remaining, now, deleted>>

\* The program is run again: a new process, an empty list, the same file.
Restart ==
    /\ pc \in Terminal
    /\ pc' = "init"
    /\ tasks' = <<>>
    /\ remaining' = 0
    /\ wfail' = FALSE
    /\ last' = [op |-> "restart", outcome |-> "none"]
    /\ UNCHANGED <<file, now, deleted>>

Steps(history) ==
    \/ Tick
    \/ \E w \in WriteOutcomes : Load(w)
    \/ \E raw_n \in CountInputs, w \in WriteOutcomes : Choice1(raw_n, w)
    \/ \E raw_desc \in AddDescInputs, w \in WriteOutcomes : AddOne(raw_desc, w)
    \/ Choice2
    \/ \E raw_filt \in FilterInputs : Choice3(raw_filt)
    \/ \E raw_id \in IdInputs, raw_desc \in NewDescInputs, w \in WriteOutcomes :
            Choice4(raw_id, raw_desc, w)
    \/ \E raw_id \in IdInputs, raw_status \in StatusInputs, w \in WriteOutcomes :
            Choice5(raw_id, raw_status, w)
    \/ \E raw_id \in IdInputs, raw_confirm \in ConfirmInputs, w \in WriteOutcomes :
            Choice6(raw_id, raw_confirm, w, history)
    \/ \E w \in WriteOutcomes : Choice7(w)
    \/ InvalidChoice
    \/ \E w \in WriteOutcomes : Interrupt(w)
    \/ Restart

Next == Steps(FALSE)

NextHistory == Steps(TRUE)

Spec == Init /\ [][Next]_vars

\* The same program, with the ids of deleted tasks recorded in `deleted`.
SpecHistory == Init /\ [][NextHistory]_vars

\* The files of a store the program alone has written, or is about to
\* migrate: no file, an empty list, a list with a legacy record.
CleanFiles ==
    {f \in InitialFiles :
        f = Absent \/ f = json_dump(<<>>) \/ load_tasks(f, 0).migrated}

InitClean == Init /\ file \in CleanFiles

\* The program started on such a file.
SpecClean == InitClean /\ [][Next]_vars

\* ================================================================ claims

\* C1: the id given to a newly added task is never an id that a task
\* deleted earlier (in this run or a previous one) held.
C1_IdsNeverReused ==
    (last.op = "add" /\ last.outcome = "added") => last.id \notin deleted

\* C2: in every reachable state no two tasks of the list have the same id.
C2_IdsUnique ==
    \A i, j \in 1..Len(tasks) : i # j => tasks[i].id # tasks[j].id

HasValidStatus(task) == Has(task, "status") /\ task.status \in VALID_STATUSES

\* C3: every task of the list has a status in VALID_STATUSES, and so has
\* every record of the file that the save of choice 7 or of the interrupt
\* wrote.
C3_StatusValid ==
    /\ \A i \in 1..Len(tasks) : HasValidStatus(tasks[i])
    /\ (pc \in {"exited", "interrupted"} /\ ~wfail)
            => \A i \in 1..Len(file.items) : HasValidStatus(file.items[i])

\* C4: get_next_id answers 1 on the empty list and otherwise a number
\* greater than every id of the list, one more than the largest.
C4_NextIdGreater ==
    /\ tasks = <<>> => get_next_id(tasks) = 1
    /\ \A i \in 1..Len(tasks) :
            IsNum(tasks[i].id) => get_next_id(tasks) > tasks[i].id.int

\* C5: when the process has ended by choice 7 or by an interrupt, at the
\* menu or in the middle of add_task, and no write of the run failed, the
\* file holds exactly the list, every completed mutation included.
C5_NoMutationLost ==
    (pc \in {"exited", "interrupted"} /\ ~wfail) => file = json_dump(tasks)

C5_Witness ==
    /\ pc = "interrupted" /\ ~wfail
    /\ last.op = "interrupt" /\ last.at = "adding" /\ remaining = 1
    /\ tasks # <<>> /\ file = json_dump(tasks)

\* C6: the process ends only by choice 7 or by an interrupt; every other
\* choice and input leaves it at a prompt.
C6_EndsOnlyByExitOrInterrupt ==
    pc \in Terminal => last.op \in {"exit", "interrupt"}

Matching(ts, status) ==
    SelectSeq(ts, LAMBDA task : Get(task, "status", "") = status)

\* C7: choice 3 with a valid status yields exactly the tasks of that
\* status, in the order of the list (none, without an error, when no task
\* matches); any other status is rejected.
C7_FilterExact ==
    last.op = "filter" /\ last.status # "" =>
        IF last.status \in VALID_STATUSES
        THEN pc # "crashed" /\ last.filtered = Matching(tasks, last.status)
        ELSE last.outcome = "invalid"

\* C8: choice 5 with a status outside VALID_STATUSES leaves the list as it
\* was (the status and updatedAt of the task included) and is rejected.
\* Stated by contraposition: a step that changes the list, marks a task or
\* leaves the prompt is no choice 5 with such a status.
C8_InvalidStatusRejected ==
    [][(last'.op = "mark"
            /\ ~(tasks' = tasks /\ pc' = "menu" /\ last'.outcome # "marked"))
        => ~\E raw_id \in IdInputs, raw_status \in StatusInputs, w \in WriteOutcomes :
                /\ lower(strip(raw_status)) \notin VALID_STATUSES
                /\ Choice5(raw_id, raw_status, w)]_vars

C8_Witness ==
    /\ last.op = "mark" /\ last.outcome = "invalid_status"
    /\ pc = "menu" /\ tasks # <<>>

\* C9: choice 4 with an empty or blank new description, or with an id
\* that no task has, leaves the list as it was. Stated by contraposition:
\* a step that changes the list or updates a task is no such choice 4.
C9_EmptyUpdateCancelled ==
    [][(last'.op = "update" /\ ~(tasks' = tasks /\ last'.outcome # "updated"))
        => ~\E raw_id \in IdInputs, raw_desc \in NewDescInputs, w \in WriteOutcomes :
                /\ \/ strip(raw_desc) = ""
                   \/ (IsNum(raw_id) /\ find_task_by_id(tasks, raw_id.int) = 0)
                /\ Choice4(raw_id, raw_desc, w)]_vars

C9_Witness ==
    /\ last.op = "update" /\ last.outcome = "cancelled"
    /\ pc = "menu" /\ tasks # <<>>

\* C10: no task of the list has a description that is empty once trimmed.
C10_DescriptionNonEmpty ==
    \A i \in 1..Len(tasks) : strip(tasks[i].description) # ""

\* C11: a load of a file that holds a legacy record keeps the legacy and
\* the current-format elements in the order of the file and drops the
\* others; a legacy record becomes a task with the trimmed text and the
\* status done or todo, a current-format record keeps its other fields,
\* the k-th kept record has id k, and the list is written to the file at
\* once (unless the write fails).
C11_MigrationOnLoad ==
    [][(pc = "init" /\ pc' = "menu" /\ file.kind = "list"
            /\ \E i \in 1..Len(file.items) :
                    {"task", "done"} \subseteq DOMAIN file.items[i])
        => LET legacy(it) == {"task", "done"} \subseteq DOMAIN it
               kept == SelectSeq(file.items,
                          LAMBDA it : \/ {"task", "done"} \subseteq DOMAIN it
                                      \/ {"id", "description"} \subseteq DOMAIN it)
           IN  /\ Len(tasks') = Len(kept)
               /\ \A k \in 1..Len(kept) :
                    /\ tasks'[k].id = Num(k)
                    /\ IF legacy(kept[k])
                       THEN /\ tasks'[k].description = strip(kept[k].task)
                            /\ tasks'[k].status =
                                  IF kept[k].done THEN "done" ELSE "todo"
                       ELSE /\ DOMAIN tasks'[k] = DOMAIN kept[k]
                            /\ \A key \in DOMAIN kept[k] \ {"id"} :
                                    tasks'[k][key] = kept[k][key]
               /\ ~wfail' => file' = json_dump(tasks')]_vars

C11_Witness ==
    /\ last.op = "load" /\ last.outcome = "migrated" /\ last.write = "ok"
    /\ Len(tasks) = 2 /\ tasks[1].description = "" /\ tasks[2].description = "b"
    /\ tasks[2].id = Num(2) /\ file = json_dump(tasks)

\* The files a migrating load writes.
MigratedFiles ==
    { json_dump(load_tasks(f, t).tasks) :
        f \in {g \in InitialFiles : load_tasks(g, 0).migrated}, t \in 0..MaxClock }

\* C12: a load of a file that an earlier, migrating load wrote migrates
\* nothing, reports no migration, leaves the file as it is and returns the
\* list the earlier load returned: the records of the file, with their
\* ids, order and fields.
C12_MigrationIdempotent ==
    [][(pc = "init" /\ pc' = "menu" /\ file \in MigratedFiles)
        => /\ tasks' = file.items
           /\ file' = file
           /\ wfail' = wfail
           /\ last'.outcome # "migrated"
           /\ \A t \in 0..MaxClock : ~load_tasks(file, t).migrated]_vars

C12_Witness ==
    /\ last.op = "load" /\ last.outcome = "list"
    /\ file \in MigratedFiles /\ tasks = file.items /\ Len(tasks) = 2

\* C13: saving a list the program holds and loading the file gives the
\* same list back (the same tasks, order and fields) with no migration,
\* and a load of a file of current-format records leaves the file as it
\* is and returns its records.
C13_RoundTrip ==
    [][/\ (tasks' # tasks \/ pc = "init")
            => load_tasks(json_dump(tasks'), now') =
                    [tasks |-> tasks', migrated |-> FALSE]
       /\ (pc = "init" /\ pc' = "menu" /\ file.kind = "list"
                /\ \A i \in 1..Len(file.items) :
                        /\ {"id", "description"} \subseteq DOMAIN file.items[i]
                        /\ ~({"task", "done"} \subseteq DOMAIN file.items[i]))
            => tasks' = file.items /\ file' = file /\ wfail' = wfail]_vars

\* A list left by a delete was saved and has been loaded again.
C13_Witness ==
    /\ last.op = "load" /\ last.outcome = "list"
    /\ Len(tasks) = 1 /\ tasks[1].id = Num(2) /\ file = json_dump(tasks)

\* C14: every task that carries both timestamps has updatedAt >= createdAt
\* (the clock of the model never goes backwards).
C14_UpdatedNotBeforeCreated ==
    \A i \in 1..Len(tasks) :
        (Has(tasks[i], "createdAt") /\ Has(tasks[i], "updatedAt"))
            => tasks[i].updatedAt >= tasks[i].createdAt

\* C15: after every step the file holds what it held before the step or
\* the complete list save_tasks was given, never less; and a failing write
\* does not end the process.
C15_SaveAtomic ==
    [][/\ file' = file \/ file' = json_dump(tasks')
       /\ (wfail' /\ ~wfail) => pc' # "crashed"]_vars

\* C16: a choice 4 that updates, or a choice 5 that marks, changes one
\* task, the one with the id typed in: its description (resp. status)
\* becomes the text typed in, its updatedAt the clock reading, its other
\* fields (id and createdAt among them) stay; every other task, and the
\* length and order of the list, stay. (now' = now: the step is no tick of
\* the clock, which leaves `last` as the previous step set it.)
C16_MutationLocal ==
    [][(now' = now /\ last'.op \in {"update", "mark"}
            /\ last'.outcome \in {"updated", "marked"})
        => \E k \in 1..Len(tasks) :
            LET field == IF last'.op = "update" THEN "description" ELSE "status"
            IN  /\ Len(tasks') = Len(tasks)
                /\ \A j \in 1..Len(tasks) : j # k => tasks'[j] = tasks[j]
                /\ DOMAIN tasks'[k] = DOMAIN tasks[k] \cup {field, "updatedAt"}
                /\ \A key \in DOMAIN tasks[k] \ {field, "updatedAt"} :
                        tasks'[k][key] = tasks[k][key]
                /\ tasks'[k].updatedAt = now
                /\ \/ \E raw_id \in IdInputs, raw_desc \in NewDescInputs,
                          w \in WriteOutcomes :
                        /\ last'.op = "update"
                        /\ tasks[k].id = raw_id
                        /\ tasks'[k].description = strip(raw_desc)
                        /\ Choice4(raw_id, raw_desc, w)
                   \/ \E raw_id \in IdInputs, raw_status \in StatusInputs,
                          w \in WriteOutcomes :
                        /\ last'.op = "mark"
                        /\ tasks[k].id = raw_id
                        /\ tasks'[k].status = lower(strip(raw_status))
                        /\ Choice5(raw_id, raw_status, w)]_vars

\* The second of two tasks was updated after the clock advanced.
C16_Witness ==
    /\ last.op = "update" /\ last.outcome = "updated" /\ Len(tasks) = 2
    /\ print_task(tasks[1]) /\ print_task(tasks[2])
    /\ tasks[2].description = "b" /\ tasks[2].updatedAt = 1
    /\ tasks[2].createdAt = 0 /\ tasks[1].updatedAt = 0

\* An id and an answer that ask for a removal: the id of a task of the
\* list and y or yes.
Confirmed(raw_id, raw_confirm) ==
    /\ IsNum(raw_id)
    /\ lower(strip(raw_confirm)) \in {"y", "yes"}
    /\ \E k \in 1..Len(tasks) : tasks[k].id = raw_id

\* C17: a choice 6 with the id of a task and the answer y or yes (once
\* the confirmation has been asked) removes one task, one with that id:
\* the tasks before it and after it keep their fields and order. With an
\* id no task has, text that is no number, or any other answer, the list
\* is left as it was. Stated on the two kinds of choice-6 step: one that
\* leaves the list as it was is no confirmed choice 6 on the id of a task
\* (unless print_task raised before the question); one that changes it is
\* no choice 6 with any other input, and removes one task with the id
\* typed in.
C17_DeleteExactlyOne ==
    [][(now' = now /\ last'.op = "delete")
        => \A raw_id \in IdInputs, raw_confirm \in ConfirmInputs :
            IF tasks' = tasks
            THEN \/ pc' = "crashed"
                 \/ ~Confirmed(raw_id, raw_confirm)
                 \/ ~\E w \in WriteOutcomes :
                        Choice6(raw_id, raw_confirm, w, FALSE)
            ELSE \/ ~\E w \in WriteOutcomes :
                        Choice6(raw_id, raw_confirm, w, FALSE)
                 \/ /\ Confirmed(raw_id, raw_confirm)
                    /\ \E k \in 1..Len(tasks) :
                        /\ tasks[k].id = raw_id
                        /\ Len(tasks') = Len(tasks) - 1
                        /\ \A j \in 1..(k - 1) : tasks'[j] = tasks[j]
                        /\ \A j \in k..Len(tasks') : tasks'[j] = tasks[j + 1]]_vars

\* The first of two tasks was deleted.
C17_Witness ==
    /\ last.op = "delete" /\ last.outcome = "deleted"
    /\ Len(tasks) = 1 /\ tasks[1].id = Num(2) /\ pc = "menu"

\* C18: a description typed at add_task's prompt appends one task when it
\* is not empty once trimmed, and nothing otherwise. The new task is the
\* last of the list, has the trimmed description, id = get_next_id of the
\* list before (1 on the empty list), status todo and both timestamps at
\* the clock reading; the tasks before it stay; and when the previous
\* description of the same add_task call added a task, the new id is the
\* next higher one.
C18_CreateAppendsOne ==
    [][(pc = "adding" /\ pc' \in {"adding", "menu"} /\ now' = now)
        => \A raw_desc \in AddDescInputs :
            (\E w \in WriteOutcomes : AddOne(raw_desc, w)) =>
                IF strip(raw_desc) = "" THEN tasks' = tasks
                ELSE LET new == tasks'[Len(tasks')]
                     IN  /\ Len(tasks') = Len(tasks) + 1
                         /\ SubSeq(tasks', 1, Len(tasks)) = tasks
                         /\ new = [id |-> Num(get_next_id(tasks)),
                                   description |-> strip(raw_desc),
                                   status |-> "todo",
                                   createdAt |-> now, updatedAt |-> now]
                         /\ tasks = <<>> => new.id = Num(1)
                         /\ (last.op = "add" /\ last.outcome = "added")
                                => new.id = Num(last.id + 1)]_vars

\* C19: when the first run started from no file, an empty list or a file
\* that load migrated, the ids of the list are numbers in strictly
\* increasing order, so the last task holds the largest.
C19_IdsIncreasing ==
    \A i, j \in 1..Len(tasks) :
        i < j => /\ IsNum(tasks[i].id) /\ IsNum(tasks[j].id)
                 /\ tasks[i].id.int < tasks[j].id.int

\* A task was added after the migrated one.
C19_Witness ==
    /\ Len(tasks) = 2 /\ last.op = "add" /\ last.outcome = "added"
    /\ tasks[1].status = "done" /\ tasks[1].id = Num(1)
    /\ tasks[2].id = Num(2) /\ tasks[2].status = "todo"

\* C20: a load that does not migrate leaves the file as it is; and every
\* choice 1, 4, 5 or 6 that returns to the menu, whether or not it changed
\* the list, and choice 7, saves: when that write succeeds the file holds
\* exactly the list, so what the load discarded is overwritten.
C20_SaveAfterEveryChoice ==
    [][/\ (pc = "init" /\ pc' = "menu"
            /\ ~(file.kind = "list"
                    /\ \E i \in 1..Len(file.items) :
                            {"task", "done"} \subseteq DOMAIN file.items[i]))
            => file' = file
       /\ (pc' = "menu" /\ last'.op \in {"add", "update", "mark", "delete"})
            => /\ Has(last', "write")
               /\ last'.write = "ok" => file' = json_dump(tasks')
       /\ (pc' = "exited" /\ last'.outcome = "ok") => file' = json_dump(tasks')]_vars

\* The load dropped an element of the file, and a rejected choice 5 wrote
\* the shorter list over it.
C20_Witness ==
    /\ pc = "menu" /\ last.op = "mark" /\ last.outcome = "invalid_id"
    /\ Len(tasks) = 1 /\ tasks[1].id = NotNum /\ file = json_dump(tasks)

====
